---------------------------- MODULE Spec2Model ----------------------------
(***************************************************************************)
(* Model of the Polaris side panel (src/unnamed/part_000), the             *)
(* AssistantMessage render engine and the content script                   *)
(* (src/components/AssistantMessage.tsx).                                  *)
(*                                                                         *)
(* JavaScript values are modelled as strings.  Null stands for both null   *)
(* and undefined; "" is the empty string.  An optional object (an event    *)
(* prop, a resultEvent) is a sequence of length 0 or 1.  An absent payload *)
(* is a payload whose fields are all Null, which is what every             *)
(* `e.payload?.x` access of the source makes of it.                        *)
(***************************************************************************)
EXTENDS Integers, Sequences, FiniteSets, TLC

VARIABLES
  messages,             \* SidePanel: useState<Message[]>
  isLoading,            \* SidePanel: useState(false)
  currentRequestIdRef,  \* SidePanel: useRef<string | null>, 0 is null
  sendPc,               \* position of the async handleSendMessage
  nextRequestId,        \* number of request ids generated so far
  channel,              \* chrome.runtime messages in flight to the side panel
  cs,                   \* content script: one fetch loop per request id
  am,                   \* per message index: the AssistantMessage component state
  toggles,              \* number of user clicks on disclosure controls so far
  foreignSent,          \* number of messages of other requests broadcast so far
  lastOp                \* history: the step that just happened

vars == <<messages, isLoading, currentRequestIdRef, sendPc, nextRequestId,
          channel, cs, am, toggles, foreignSent, lastOp>>

----------------------------------------------------------------------------
(* Bounds *)

MaxEvents == 4      \* events accepted into one turn's list (engine specifications)
MaxToggles == 3     \* user clicks on disclosure controls
MaxTurns == 2       \* user sends
MaxStream == 2      \* events the response streams carry in all
MaxForeign == 1     \* messages of another panel's request broadcast to this panel
MaxChannel == 3     \* messages in flight at once

----------------------------------------------------------------------------
(* JavaScript values *)

Null == "null"

Truthy(x) == x # Null /\ x # ""

\* a || b
OrElse(a, b) == IF Truthy(a) THEN a ELSE b

NoPayload ==
  [messageId |-> Null, thinking |-> Null, content |-> Null, finalAnswer |-> Null,
   suggestion |-> Null, toolCallId |-> Null, toolName |-> Null]

\* A StreamEvent.
Ev(type, runId, parentId, toolCallId, timestamp, payload) ==
  [type |-> type, runId |-> runId, parentId |-> parentId, toolCallId |-> toolCallId,
   agentId |-> Null, timestamp |-> timestamp, payload |-> payload]

ChunkTypes == {"chunk-text", "chunk-sub-agent-text", "chunk-table", "chunk-code", "chunk-chart"}
TextChunkTypes == {"chunk-text", "chunk-sub-agent-text"}
StructuredChunkTypes == {"chunk-table", "chunk-code", "chunk-chart"}

----------------------------------------------------------------------------
(* Sequence helpers *)

Range(s) == {s[i] : i \in DOMAIN s}

\* the elements of a set of integers in ascending order
RECURSIVE SortedSeq(_)
SortedSeq(S) ==
  IF S = {} THEN <<>>
  ELSE LET m == CHOOSE x \in S : \A y \in S : x <= y
       IN <<m>> \o SortedSeq(S \ {m})


EmptyMap == [x \in {} |-> Null]

\* Map.prototype.set / obj[k] = v
Put(m, k, v) == [x \in DOMAIN m \cup {k} |-> IF x = k THEN v ELSE m[x]]

\* The element at the least of a set of positions, as an optional value
\* (Array.prototype.find over the positions that pass its test).
FirstAt(s, hits) ==
  IF hits = {} THEN <<>> ELSE <<s[CHOOSE i \in hits : \A j \in hits : i <= j]>>

\* events.find(e => e.type === type)
FindType(events, type) == FirstAt(events, {i \in DOMAIN events : events[i].type = type})

\* prevEvents.find(e => e.payload?.messageId === msgId)
FindMessage(events, msgId) ==
  FirstAt(events, {i \in DOMAIN events : events[i].payload.messageId = msgId})

----------------------------------------------------------------------------
(* buildExecutionTree *)

\* The value of a property key that is an array index ("1", "2"), else -1.
\* Object.values lists such keys first, in ascending numeric order, and every
\* other key after them in insertion order.
ArrayIndex(k) == CASE k = "1" -> 1 [] k = "2" -> 2 [] OTHER -> -1

\* Mutant: step 1 without its runId guard.
RECURSIVE InsertionOrder_unguarded(_, _)
InsertionOrder_unguarded(events, seen) ==
  IF events = <<>> THEN <<>>
  ELSE LET runId == Head(events).runId
       IN IF runId \in seen
          THEN InsertionOrder_unguarded(Tail(events), seen)
          ELSE <<runId>> \o InsertionOrder_unguarded(Tail(events), seen \cup {runId})

\* The distinct truthy runIds of the list, in order of first appearance: the
\* order in which step 1 creates the properties of `nodes`.
RECURSIVE InsertionOrder(_, _)
InsertionOrder(events, seen) ==
  IF events = <<>> THEN <<>>
  ELSE LET runId == Head(events).runId
       IN IF ~Truthy(runId) \/ runId \in seen
          THEN InsertionOrder(Tail(events), seen)
          ELSE <<runId>> \o InsertionOrder(Tail(events), seen \cup {runId})

\* Object.values(nodes), as the sequence of the nodes' keys.
ObjectKeys(events) ==
  LET ins == InsertionOrder(events, {})
      idx == SortedSeq({ArrayIndex(k) : k \in {x \in Range(ins) : ArrayIndex(x) >= 0}})
      idxKeys == [i \in DOMAIN idx |-> CHOOSE k \in Range(ins) : ArrayIndex(k) = idx[i]]
  IN idxKeys \o SelectSeq(ins, LAMBDA k : ArrayIndex(k) < 0)

\* Mutant: parentId, toolCallId and agentId follow the latest event of the run.
GroupByRunId_latest(events) ==
  [runId \in Range(InsertionOrder(events, {})) |->
     LET own == SelectSeq(events, LAMBDA e : e.runId = runId)
         event == own[Len(own)]
     IN [runId |-> runId,
         parentId |-> OrElse(event.parentId, Null),
         toolCallId |-> OrElse(event.toolCallId, Null),
         agentId |-> OrElse(event.agentId, Null),
         events |-> own,
         toolCalls |-> EmptyMap,
         startTime |-> Null,
         endTime |-> Null]]

\* Step 1: group events by runId into execution nodes.
GroupByRunId(events) ==
  [runId \in Range(InsertionOrder(events, {})) |->
     LET own == SelectSeq(events, LAMBDA e : e.runId = runId)
         event == own[1]
     IN [runId |-> runId,
         parentId |-> OrElse(event.parentId, Null),
         toolCallId |-> OrElse(event.toolCallId, Null),
         agentId |-> OrElse(event.agentId, Null),
         events |-> own,
         toolCalls |-> EmptyMap,
         startTime |-> Null,
         endTime |-> Null]]

\* Mutant: the times are those of the first and of the last event of the node.
SetTimes_bounds(node) ==
  [node EXCEPT !.startTime = OrElse(node.events[1].timestamp, Null),
               !.endTime = OrElse(node.events[Len(node.events)].timestamp, Null)]

\* Step 2: start and end times of one node.
SetTimes(node) ==
  LET startEvent == FindType(node.events, "start")
      finishEvent == FindType(node.events, "finish")
      first == node.events[1].timestamp
      last == node.events[Len(node.events)].timestamp
  IN [node EXCEPT
        !.startTime = OrElse(IF startEvent = <<>> THEN Null ELSE startEvent[1].timestamp,
                             OrElse(first, Null)),
        !.endTime = OrElse(IF finishEvent = <<>> THEN Null ELSE finishEvent[1].timestamp,
                           OrElse(last, Null))]

\* Mutant: a tool-result whose tool call is not in the map yet creates the entry.
ToolCallStep_buffered(toolCalls, event) ==
  LET toolCallId == event.payload.toolCallId
  IN IF event.type = "tool-call-start" /\ Truthy(toolCallId)
     THEN Put(toolCalls, toolCallId,
              [toolCallId |-> toolCallId,
               toolName |-> OrElse(event.payload.toolName, "unknown"),
               startEvent |-> event,
               resultEvent |-> IF toolCallId \in DOMAIN toolCalls
                               THEN toolCalls[toolCallId].resultEvent ELSE <<>>,
               childAgent |-> Null])
     ELSE IF event.type = "tool-result" /\ Truthy(toolCallId)
     THEN Put(toolCalls, toolCallId,
              [toolCallId |-> toolCallId,
               toolName |-> "unknown",
               startEvent |-> event,
               resultEvent |-> <<event>>,
               childAgent |-> Null])
     ELSE toolCalls

\* Step 3, one event: a tool-call-start sets the entry, a tool-result fills the
\* resultEvent of the entry that is there.
ToolCallStep(toolCalls, event) ==
  LET toolCallId == event.payload.toolCallId
  IN IF event.type = "tool-call-start" /\ Truthy(toolCallId)
     THEN Put(toolCalls, toolCallId,
              [toolCallId |-> toolCallId,
               toolName |-> OrElse(event.payload.toolName, "unknown"),
               startEvent |-> event,
               resultEvent |-> <<>>,
               childAgent |-> Null])
     ELSE IF event.type = "tool-result" /\ Truthy(toolCallId)
     THEN IF toolCallId \in DOMAIN toolCalls
          THEN [toolCalls EXCEPT ![toolCallId].resultEvent = <<event>>]
          ELSE toolCalls
     ELSE toolCalls

\* Step 3: the toolCalls map of a node after scanning its events in order.
RECURSIVE ExtractToolCalls(_, _)
ExtractToolCalls(events, toolCalls) ==
  IF events = <<>> THEN toolCalls
  ELSE ExtractToolCalls(Tail(events), ToolCallStep(toolCalls, Head(events)))

\* Mutant: linking a child replaces the parent's tool call entry by a fresh one.
LinkNode_fresh(nodes, runId) ==
  LET node == nodes[runId]
  IN IF Truthy(node.parentId) /\ Truthy(node.toolCallId)
        /\ node.parentId \in DOMAIN nodes
        /\ node.toolCallId \in DOMAIN nodes[node.parentId].toolCalls
     THEN [nodes EXCEPT ![node.parentId].toolCalls[node.toolCallId] =
             [@ EXCEPT !.resultEvent = <<>>, !.childAgent = runId]]
     ELSE nodes

\* Mutant: the child is linked to every tool call of its parent.
LinkNode_byParent(nodes, runId) ==
  LET node == nodes[runId]
  IN IF Truthy(node.parentId) /\ Truthy(node.toolCallId)
        /\ node.parentId \in DOMAIN nodes
        /\ node.toolCallId \in DOMAIN nodes[node.parentId].toolCalls
     THEN [nodes EXCEPT ![node.parentId].toolCalls =
             [t \in DOMAIN @ |-> [@[t] EXCEPT !.childAgent = runId]]]
     ELSE nodes

\* Step 4, one node: link it to its parent's tool call.
LinkNode(nodes, runId) ==
  LET node == nodes[runId]
  IN IF Truthy(node.parentId) /\ Truthy(node.toolCallId)
        /\ node.parentId \in DOMAIN nodes
        /\ node.toolCallId \in DOMAIN nodes[node.parentId].toolCalls
     THEN [nodes EXCEPT ![node.parentId].toolCalls[node.toolCallId].childAgent = runId]
     ELSE nodes

\* Step 4: every node, in Object.values order.
RECURSIVE LinkSubAgents(_, _)
LinkSubAgents(keys, nodes) ==
  IF keys = <<>> THEN nodes
  ELSE LinkSubAgents(Tail(keys), LinkNode(nodes, Head(keys)))

\* The tree before linking (steps 1 to 3).
UnlinkedTree(events) ==
  LET nodes == GroupByRunId(events)
  IN [runId \in DOMAIN nodes |->
        LET node == SetTimes(nodes[runId])
        IN [node EXCEPT !.toolCalls = ExtractToolCalls(node.events, EmptyMap)]]

buildExecutionTree(events) == LinkSubAgents(ObjectKeys(events), UnlinkedTree(events))

\* Object.values(tree).filter(node => !node.parentId), as run ids.
rootNodes(events) ==
  LET tree == buildExecutionTree(events)
  IN SelectSeq(ObjectKeys(events), LAMBDA runId : ~Truthy(tree[runId].parentId))

----------------------------------------------------------------------------
(* ExecutionNodeComponent: processedData *)

\* The consolidated message a first chunk event creates; idx is the index of the
\* event in node.events (from 1 here, from 0 in the source).
NewMessage(e, idx) ==
  [messageId |-> e.payload.messageId,
   event |-> e,
   thinking |-> OrElse(e.payload.thinking, ""),
   textContent |-> IF e.type \in TextChunkTypes THEN OrElse(e.payload.content, "") ELSE "",
   finalAnswer |-> OrElse(e.payload.finalAnswer, ""),
   structuredContent |-> IF e.type \in StructuredChunkTypes THEN e.payload.content ELSE Null,
   suggestion |-> OrElse(e.payload.suggestion, ""),
   orderIndex |-> idx]

\* Mutant: last write wins per event, every field taken from the later event.
UpdateMessage_perEvent(item, e) ==
  [NewMessage(e, item.orderIndex) EXCEPT !.event = item.event]

\* Mutant: the thinking text of a message is the one it was created with.
UpdateMessage_keepThinking(item, e) ==
  [item EXCEPT
     !.textContent =
        IF e.type \in TextChunkTypes /\ Truthy(e.payload.content) THEN e.payload.content ELSE @,
     !.structuredContent =
        IF e.type \in StructuredChunkTypes /\ Truthy(e.payload.content)
        THEN e.payload.content ELSE @,
     !.finalAnswer = IF Truthy(e.payload.finalAnswer) THEN e.payload.finalAnswer ELSE @,
     !.suggestion = IF Truthy(e.payload.suggestion) THEN e.payload.suggestion ELSE @]

\* The update of an existing entry by a later chunk event.
UpdateMessage(item, e) ==
  [item EXCEPT
     !.thinking = IF Truthy(e.payload.thinking) THEN e.payload.thinking ELSE @,
     !.textContent =
        IF e.type \in TextChunkTypes /\ Truthy(e.payload.content) THEN e.payload.content ELSE @,
     !.structuredContent =
        IF ~(e.type \in TextChunkTypes /\ Truthy(e.payload.content))
           /\ e.type \in StructuredChunkTypes /\ Truthy(e.payload.content)
        THEN e.payload.content ELSE @,
     !.finalAnswer = IF Truthy(e.payload.finalAnswer) THEN e.payload.finalAnswer ELSE @,
     !.suggestion = IF Truthy(e.payload.suggestion) THEN e.payload.suggestion ELSE @]

\* Mutant: a chunk event without a messageId is consolidated under the key it has.
RECURSIVE messageMap_unkeyed(_, _)
messageMap_unkeyed(events, n) ==
  IF n = 0 THEN EmptyMap
  ELSE LET prev == messageMap_unkeyed(events, n - 1)
           e == events[n]
           msgId == e.payload.messageId
       IN IF e.type \in ChunkTypes
          THEN IF msgId \notin DOMAIN prev
               THEN Put(prev, msgId, NewMessage(e, n))
               ELSE [prev EXCEPT ![msgId] = UpdateMessage(@, e)]
          ELSE prev

\* messageMap after the events 1..n of the node.
RECURSIVE messageMap(_, _)
messageMap(events, n) ==
  IF n = 0 THEN EmptyMap
  ELSE LET prev == messageMap(events, n - 1)
           e == events[n]
           msgId == e.payload.messageId
       IN IF e.type \in ChunkTypes /\ Truthy(msgId)
          THEN IF msgId \notin DOMAIN prev
               THEN Put(prev, msgId, NewMessage(e, n))
               ELSE [prev EXCEPT ![msgId] = UpdateMessage(@, e)]
          ELSE prev

\* Mutant: a tool-result makes a tool-call item too.
RECURSIVE toolCallMap_withResults(_, _)
toolCallMap_withResults(events, n) ==
  IF n = 0 THEN EmptyMap
  ELSE LET prev == toolCallMap_withResults(events, n - 1)
           e == events[n]
       IN IF e.type \in {"tool-call-start", "tool-result"} /\ Truthy(e.payload.toolCallId)
          THEN Put(prev, e.payload.toolCallId, n)
          ELSE prev

\* toolCallMap after the events 1..n of the node: toolCallId -> orderIndex.
RECURSIVE toolCallMap(_, _)
toolCallMap(events, n) ==
  IF n = 0 THEN EmptyMap
  ELSE LET prev == toolCallMap(events, n - 1)
           e == events[n]
       IN IF e.type = "tool-call-start" /\ Truthy(e.payload.toolCallId)
          THEN Put(prev, e.payload.toolCallId, n)
          ELSE prev

\* Mutant: a message is ordered by the index of the last chunk event that updated it.
orderedItems_lastUpdate(events) ==
  LET mm == messageMap(events, Len(events))
      tm == toolCallMap(events, Len(events))
      last(m) == CHOOSE i \in DOMAIN events :
                   /\ events[i].type \in ChunkTypes /\ events[i].payload.messageId = m
                   /\ \A j \in DOMAIN events :
                        (events[j].type \in ChunkTypes /\ events[j].payload.messageId = m)
                           => j <= i
      items == {[type |-> "message", id |-> m, orderIndex |-> last(m)] : m \in DOMAIN mm}
               \cup {[type |-> "toolCall", id |-> t, orderIndex |-> tm[t]] : t \in DOMAIN tm}
      order == SortedSeq({it.orderIndex : it \in items})
  IN [i \in DOMAIN order |-> CHOOSE it \in items : it.orderIndex = order[i]]

\* orderedItems: messages and tool calls, sorted by orderIndex.  An event is a
\* chunk or a tool-call-start, never both, so no two items share an orderIndex.
orderedItems(events) ==
  LET mm == messageMap(events, Len(events))
      tm == toolCallMap(events, Len(events))
      items == {[type |-> "message", id |-> m, orderIndex |-> mm[m].orderIndex] : m \in DOMAIN mm}
               \cup {[type |-> "toolCall", id |-> t, orderIndex |-> tm[t]] : t \in DOMAIN tm}
      order == SortedSeq({it.orderIndex : it \in items})
  IN [i \in DOMAIN order |-> CHOOSE it \in items : it.orderIndex = order[i]]

\* The data of message item msgId.
MessageData(events, msgId) == messageMap(events, Len(events))[msgId]

\* hasContent of the policy: textContent || finalAnswer || structuredContent
hasContent(data) ==
  Truthy(data.textContent) \/ Truthy(data.finalAnswer) \/ Truthy(data.structuredContent)

----------------------------------------------------------------------------
(* ExecutionNodeComponent: disclosure state and the auto-expand/collapse effect *)

\* The state of a freshly mounted ExecutionNodeComponent.  userSet is history:
\* the message ids whose flag the user has toggled in this component instance.
FreshNode == [expandedItems |-> EmptyMap, prevEvents |-> <<>>, userSet |-> {}]

\* The state of a freshly mounted ToolCallComponent (userSet is history).
FreshTool == [isExpanded |-> TRUE, userSet |-> FALSE]

\* Mutant: the auto-expand branch never fires.
AutoExpands_off(comp, events, msgId) == FALSE

\* "New item with only thinking - expand it"
AutoExpands(comp, events, msgId) ==
  LET prevItem == FindMessage(comp.prevEvents, msgId)
      data == MessageData(events, msgId)
  IN /\ prevItem = <<>>
     /\ Truthy(data.thinking)
     /\ ~hasContent(data)
     /\ msgId \notin DOMAIN comp.expandedItems

\* Mutant: the collapse looks for content in the event that created the message.
AutoCollapses_firstEvent(comp, events, msgId) ==
  LET prevItem == FindMessage(comp.prevEvents, msgId)
  IN /\ prevItem # <<>>
     /\ Truthy(prevItem[1].payload.content)

\* "Content just arrived - collapse it"
AutoCollapses(comp, events, msgId) ==
  LET prevItem == FindMessage(comp.prevEvents, msgId)
      data == MessageData(events, msgId)
  IN /\ prevItem # <<>>
     /\ ~Truthy(prevItem[1].payload.content)
     /\ hasContent(data)

\* One run of the effect of a component instance whose node has these events:
\* the setExpandedItems updater, prevEventsRef.current = node.events included.
AutoExpandCollapse(comp, events) ==
  LET msgs == DOMAIN messageMap(events, Len(events))
      touched == {m \in msgs : AutoExpands(comp, events, m) \/ AutoCollapses(comp, events, m)}
  IN [comp EXCEPT
        !.expandedItems =
           [m \in DOMAIN comp.expandedItems \cup touched |->
              IF m \in msgs /\ AutoCollapses(comp, events, m) THEN FALSE
              ELSE IF m \in msgs /\ AutoExpands(comp, events, m) THEN TRUE
              ELSE comp.expandedItems[m]],
        !.prevEvents = events]

\* toggleItemExpand: [id]: !prev[id]
toggleItemExpand(comp, id) ==
  [comp EXCEPT
     !.expandedItems = Put(@, id, IF id \in DOMAIN @ THEN ~@[id] ELSE TRUE),
     !.userSet = @ \cup {id}]

\* isExpanded of a message item: expandedItems[msgId] !== false
isExpanded(comp, msgId) ==
  ~(msgId \in DOMAIN comp.expandedItems /\ comp.expandedItems[msgId] = FALSE)

----------------------------------------------------------------------------
(* The rendered component tree of one AssistantMessage *)

\* The tool-call items a node component renders: the items of orderedItems
\* whose id node.toolCalls.get finds.
ToolItems(node) ==
  {it.id : it \in {x \in Range(orderedItems(node.events)) : x.type = "toolCall"}}
    \cap DOMAIN node.toolCalls

\* The ExecutionNodeComponent instances mounted at and below path p, where the
\* instance at p renders run runId, as <<path, runId>> pairs.  A component
\* instance is identified by its position: the root's key (its runId) followed
\* by the keys tool-<toolCallId> of the ToolCallComponents above it.  A
\* ToolCallComponent not mounted before starts expanded.
RECURSIVE NodeMounts(_, _, _, _)
NodeMounts(tree, tools, p, runId) ==
  {<<p, runId>>} \cup
  UNION {LET tp == p \o <<t>>
             open == IF tp \in DOMAIN tools THEN tools[tp].isExpanded ELSE TRUE
             child == tree[runId].toolCalls[t].childAgent
         IN IF open /\ child # Null THEN NodeMounts(tree, tools, tp, child) ELSE {}
         : t \in ToolItems(tree[runId])}

\* Every mounted ExecutionNodeComponent of the turn.
Mounted(events, tools) ==
  LET tree == buildExecutionTree(events)
  IN UNION {NodeMounts(tree, tools, <<r>>, r) : r \in Range(rootNodes(events))}

RunAt(mounts, p) == (CHOOSE m \in mounts : m[1] = p)[2]

\* A React commit of the AssistantMessage subtree for the event list `events`:
\* instances that stay mounted keep their state, new ones start fresh, the rest
\* are dropped.  The effect runs in the new instances (on mount) and, when the
\* tree was re-derived (rederived: every node object and node.events array is
\* new), in all of them.
Commit(a, events, tools, rederived) ==
  LET tree == buildExecutionTree(events)
      mounts == Mounted(events, tools)
      paths == {m[1] : m \in mounts}
      toolPaths == UNION {{m[1] \o <<t>> : t \in ToolItems(tree[m[2]])} : m \in mounts}
  IN [a EXCEPT
        !.events = events,
        !.tools = [tp \in toolPaths |-> IF tp \in DOMAIN tools THEN tools[tp] ELSE FreshTool],
        !.nodes = [p \in paths |->
                     LET nodeEvents == tree[RunAt(mounts, p)].events
                     IN IF p \notin DOMAIN a.nodes THEN AutoExpandCollapse(FreshNode, nodeEvents)
                        ELSE IF rederived THEN AutoExpandCollapse(a.nodes[p], nodeEvents)
                        ELSE a.nodes[p]]]

----------------------------------------------------------------------------
(* AssistantMessage: the events state *)

\* Mutant: an event counts as a duplicate only when the very same event is in the list.
isDuplicate_exact(prev, event) == \E i \in DOMAIN prev : prev[i] = event

isDuplicate(prev, event) ==
  \E i \in DOMAIN prev :
     /\ prev[i].runId = event.runId
     /\ prev[i].type = event.type
     /\ prev[i].timestamp = event.timestamp
     /\ prev[i].payload.messageId = event.payload.messageId

\* Mutant: the new event is put in front of the list.
appendEvent_front(prev, event) ==
  IF isDuplicate(prev, event) THEN prev ELSE <<event>> \o prev

\* Mutant: every event is appended, duplicates too.
appendEvent_always(prev, event) == prev \o <<event>>

\* The setEvents updater of the effect on [event].
appendEvent(prev, event) ==
  IF isDuplicate(prev, event) THEN prev ELSE prev \o <<event>>

\* The state of an AssistantMessage that was just mounted.  pending: the event
\* prop is an object the effect on [event] has not run for yet.
\* delivered, requestId and userFlags are history: the events messageListener
\* stored in the message's currentEvent, in order, the request id generated for
\* the turn, and the flag the user's last click gave to each message, by
\* component path and message id.
FreshAssistantMessage ==
  [events |-> <<>>, pending |-> FALSE, nodes |-> EmptyMap, tools |-> EmptyMap,
   delivered |-> <<>>, requestId |-> 0, userFlags |-> EmptyMap]

\* The effect on [event] for a new event prop, and the render it causes: none
\* when the updater returns prev (React bails out of an unchanged state).
ConsumeEvent(a, event) ==
  LET next == appendEvent(a.events, event)
  IN IF next = a.events THEN [a EXCEPT !.pending = FALSE]
     ELSE Commit([a EXCEPT !.pending = FALSE], next, a.tools, TRUE)

----------------------------------------------------------------------------
(* SidePanel *)

UserMessage == [role |-> "user", content |-> "prompt", currentEvent |-> <<>>, isStreaming |-> FALSE]

\* { role: "assistant", content: "", isStreaming: true }
Placeholder == [role |-> "assistant", content |-> "", currentEvent |-> <<>>, isStreaming |-> TRUE]

\* { role: "assistant", content: <text>, isStreaming: false }
ErrorMessage(text) ==
  [role |-> "assistant", content |-> text, currentEvent |-> <<>>, isStreaming |-> FALSE]

\* updated[updated.length - 1] = m
ReplaceLast(msgs, m) == IF msgs = <<>> THEN msgs ELSE [msgs EXCEPT ![Len(msgs)] = m]

\* What the side panel shows for message i: a user message shows its content,
\* an assistant message whatever its AssistantMessage component returns, the
\* streaming cursor while its event list is empty and the execution tree after.
Shown(msgs, comps, i) ==
  IF msgs[i].role = "assistant"
  THEN IF comps[i].events = <<>> THEN "cursor" ELSE "tree"
  ELSE msgs[i].content

\* Mutant: messageListener without its requestId guard.
Accepted_always(request, current) == TRUE

\* The guard of messageListener.
Accepted(request, current) == request.requestId = current

\* messageListener, STREAM_EVENT.
OnStreamEvent(msgs, event) ==
  IF msgs # <<>> /\ msgs[Len(msgs)].role = "assistant"
  THEN [msgs EXCEPT ![Len(msgs)].currentEvent = <<event>>]
  ELSE msgs

\* Mutant: STREAM_COMPLETE leaves the last message streaming.
OnStreamComplete_keep(msgs) == msgs

\* messageListener, STREAM_COMPLETE.
OnStreamComplete(msgs) ==
  IF msgs # <<>> /\ msgs[Len(msgs)].role = "assistant"
  THEN [msgs EXCEPT ![Len(msgs)].isStreaming = FALSE]
  ELSE msgs

\* Mutant: the error replaces the first assistant message instead of the last message.
OnStreamError_first(msgs, error) ==
  IF Len(msgs) < 2 THEN msgs ELSE [msgs EXCEPT ![2] = ErrorMessage("Error: " \o error)]

\* messageListener, STREAM_ERROR.
OnStreamError(msgs, error) == ReplaceLast(msgs, ErrorMessage("Error: " \o error))

\* History of the last step: the operation, its kind (a message type or a message
\* id), a request id or an index, an event, and a flag.
Op(op, kind, id, ev, flag) == [op |-> op, kind |-> kind, id |-> id, ev |-> ev, flag |-> flag]

\* The request id of another side panel's request, whose content script
\* messages chrome.runtime.sendMessage delivers to this panel as well.
ForeignRequestId == 9

\* The timestamp of the k-th event of the response to request r.
Timestamp(r, k) == ToString(r) \o "." \o ToString(k)

\* The k-th data: line of the response to request r: the start of run A, then
\* text chunks of its message m1.
StreamEvent(r, k) ==
  IF k = 1
  THEN Ev("start", "A", Null, Null, Timestamp(r, 1), NoPayload)
  ELSE Ev("chunk-text", "A", Null, Null, Timestamp(r, k),
          [NoPayload EXCEPT !.messageId = "m1", !.content = "Hi"])

\* The events a response to request r may carry.
StreamEvents(r) == {StreamEvent(r, k) : k \in 1..MaxStream}

StreamMessage(r, event) ==
  [type |-> "STREAM_EVENT", requestId |-> r, event |-> <<event>>, error |-> Null]
CompleteMessage(r) ==
  [type |-> "STREAM_COMPLETE", requestId |-> r, event |-> <<>>, error |-> Null]
ErrorSignal(r, error) ==
  [type |-> "STREAM_ERROR", requestId |-> r, event |-> <<>>, error |-> error]

\* handleSendMessage up to its first await.
SendStart ==
  /\ ~isLoading
  /\ sendPc = "idle"
  /\ Len(messages) + 2 <= 2 * MaxTurns
  /\ isLoading' = TRUE
  /\ messages' = messages \o <<UserMessage, Placeholder>>
  /\ am' = am \o <<FreshAssistantMessage, FreshAssistantMessage>>
  /\ sendPc' = "query"
  /\ lastOp' = Op("send", "", 0, <<>>, FALSE)
  /\ UNCHANGED <<currentRequestIdRef, nextRequestId, channel, cs, toggles, foreignSent>>

\* The catch block of handleSendMessage.
SendCatch(text) ==
  /\ messages' = ReplaceLast(messages, ErrorMessage(text))
  /\ isLoading' = FALSE
  /\ currentRequestIdRef' = 0
  /\ sendPc' = "idle"
  /\ lastOp' = Op("catch", "", 0, <<>>, FALSE)
  /\ UNCHANGED <<nextRequestId, channel, cs, am, toggles, foreignSent>>

\* chrome.tabs.query gave no tab id.
SendNoTab ==
  /\ sendPc = "query"
  /\ SendCatch("No active tab found")

\* The request id is generated and made current.
SendAssign ==
  /\ sendPc = "query"
  /\ nextRequestId' = nextRequestId + 1
  /\ currentRequestIdRef' = nextRequestId + 1
  /\ sendPc' = "ping"
  /\ am' = [am EXCEPT ![Len(am)].requestId = nextRequestId + 1]
  /\ lastOp' = Op("assign", "", nextRequestId + 1, <<>>, FALSE)
  /\ UNCHANGED <<messages, isLoading, channel, cs, toggles, foreignSent>>

\* PING or FETCH_FROM_TAB could not be sent.
SendNoContentScript ==
  /\ sendPc = "ping"
  /\ SendCatch("Please refresh the page and try again.")

\* PING answered and FETCH_FROM_TAB delivered: the content script starts its fetch.
SendFetch ==
  /\ sendPc = "ping"
  /\ cs' = Put(cs, currentRequestIdRef, [pc |-> "streaming", sent |-> 0])
  /\ sendPc' = "idle"
  /\ lastOp' = Op("fetch", "", currentRequestIdRef, <<>>, FALSE)
  /\ UNCHANGED <<messages, isLoading, currentRequestIdRef, nextRequestId, channel, am,
                 toggles, foreignSent>>

----------------------------------------------------------------------------
(* Content script: the FETCH_FROM_TAB listener *)

\* The number of events the content script has sent so far, over all requests.
RECURSIVE TotalSent(_)
TotalSent(rs) ==
  IF rs = {} THEN 0
  ELSE LET r == CHOOSE x \in rs : TRUE IN cs[r].sent + TotalSent(rs \ {r})

\* One reader.read() whose chunk holds the next n data: lines of the response;
\* each is parsed and sent in the order of the lines.
CsChunk(r, n) ==
  /\ r \in DOMAIN cs
  /\ cs[r].pc = "streaming"
  /\ TotalSent(DOMAIN cs) + n <= MaxStream
  /\ Len(channel) + n <= MaxChannel
  /\ channel' = channel \o [k \in 1..n |-> StreamMessage(r, StreamEvent(r, cs[r].sent + k))]
  /\ cs' = [cs EXCEPT ![r].sent = @ + n]
  /\ lastOp' = Op("chunk", "", r, <<>>, FALSE)
  /\ UNCHANGED <<messages, isLoading, currentRequestIdRef, sendPc, nextRequestId, am,
                 toggles, foreignSent>>

\* Mutant: the read loop goes on after STREAM_COMPLETE is sent.
CsComplete_again(r) ==
  /\ r \in DOMAIN cs
  /\ cs[r].pc = "streaming"
  /\ Len(channel) < MaxChannel
  /\ channel' = Append(channel, CompleteMessage(r))
  /\ lastOp' = Op("complete", "", r, <<>>, FALSE)
  /\ UNCHANGED <<messages, isLoading, currentRequestIdRef, sendPc, nextRequestId, am,
                 toggles, foreignSent, cs>>

\* reader.read() reports done.
CsComplete(r) ==
  /\ r \in DOMAIN cs
  /\ cs[r].pc = "streaming"
  /\ Len(channel) < MaxChannel
  /\ channel' = Append(channel, CompleteMessage(r))
  /\ cs' = [cs EXCEPT ![r].pc = "done"]
  /\ lastOp' = Op("complete", "", r, <<>>, FALSE)
  /\ UNCHANGED <<messages, isLoading, currentRequestIdRef, sendPc, nextRequestId, am,
                 toggles, foreignSent>>

\* fetch or reader.read() rejects, or the response is not ok.
CsError(r) ==
  /\ r \in DOMAIN cs
  /\ cs[r].pc = "streaming"
  /\ Len(channel) < MaxChannel
  /\ channel' = Append(channel, ErrorSignal(r, "HTTP error! status: 500"))
  /\ cs' = [cs EXCEPT ![r].pc = "done"]
  /\ lastOp' = Op("error", "", r, <<>>, FALSE)
  /\ UNCHANGED <<messages, isLoading, currentRequestIdRef, sendPc, nextRequestId, am,
                 toggles, foreignSent>>

\* A content script message of another side panel's request reaches this panel.
Foreign(request) ==
  /\ foreignSent < MaxForeign
  /\ Len(channel) < MaxChannel
  /\ channel' = Append(channel, request)
  /\ foreignSent' = foreignSent + 1
  /\ lastOp' = Op("foreign", "", ForeignRequestId, <<>>, FALSE)
  /\ UNCHANGED <<messages, isLoading, currentRequestIdRef, sendPc, nextRequestId, cs, am,
                 toggles>>

ForeignMessages ==
  {StreamMessage(ForeignRequestId, StreamEvent(ForeignRequestId, 1)),
   CompleteMessage(ForeignRequestId),
   ErrorSignal(ForeignRequestId, "Failed to fetch")}

----------------------------------------------------------------------------
(* messageListener and the React render of the side panel *)

\* chrome.runtime.onMessage hands the oldest message in flight to messageListener.
Deliver ==
  /\ channel # <<>>
  /\ LET request == Head(channel)
         ok == Accepted(request, currentRequestIdRef)
         last == Len(messages)
     IN /\ channel' = Tail(channel)
        /\ lastOp' = Op("deliver", request.type, request.requestId, request.event, ok)
        /\ IF ~ok
           THEN UNCHANGED <<messages, isLoading, currentRequestIdRef, am>>
           ELSE IF request.type = "STREAM_EVENT"
           THEN /\ messages' = OnStreamEvent(messages, request.event[1])
                /\ am' = IF messages # <<>> /\ messages[last].role = "assistant"
                         THEN [am EXCEPT ![last].pending = TRUE,
                                         ![last].delivered = Append(@, request.event[1])]
                         ELSE am
                /\ UNCHANGED <<isLoading, currentRequestIdRef>>
           ELSE IF request.type = "STREAM_ERROR"
           THEN /\ messages' = OnStreamError(messages, request.error)
                /\ am' = IF messages = <<>> THEN am ELSE [am EXCEPT ![last].pending = FALSE]
                /\ isLoading' = FALSE
                /\ currentRequestIdRef' = 0
           ELSE /\ messages' = OnStreamComplete(messages)
                /\ isLoading' = FALSE
                /\ currentRequestIdRef' = 0
                /\ am' = am
  /\ UNCHANGED <<sendPc, nextRequestId, cs, toggles, foreignSent>>

\* React renders the side panel and runs the effects: every AssistantMessage
\* whose event prop is a new object runs its effect on [event].  Several
\* messageListener calls may have happened since the last render.
Render ==
  /\ \E i \in DOMAIN am : am[i].pending
  /\ am' = [i \in DOMAIN am |->
              IF am[i].pending THEN ConsumeEvent(am[i], messages[i].currentEvent[1]) ELSE am[i]]
  /\ lastOp' = Op("render", "", 0, <<>>, FALSE)
  /\ UNCHANGED <<messages, isLoading, currentRequestIdRef, sendPc, nextRequestId, channel,
                 cs, toggles, foreignSent>>

----------------------------------------------------------------------------
(* The render engine of one turn, driven directly *)

\* The turn the engine specifications drive: the last message.
Turn == Len(messages)

\* The next event of the turn is passed as the event prop and the effect on
\* [event] runs for it, before another event is passed.
AppendEvent(e) ==
  /\ Len(am[Turn].events) < MaxEvents
  /\ messages' = [messages EXCEPT ![Turn].currentEvent = <<e>>]
  /\ am' = [am EXCEPT ![Turn] = ConsumeEvent(@, e)]
  /\ lastOp' = Op("append", "", Len(am[Turn].events), <<e>>, isDuplicate(am[Turn].events, e))
  /\ UNCHANGED <<isLoading, currentRequestIdRef, sendPc, nextRequestId, channel, cs,
                 toggles, foreignSent>>

\* The user clicks the thinking chevron of message msgId in the component at path p.
ToggleMessage(p, msgId) ==
  /\ toggles < MaxToggles
  /\ p \in DOMAIN am[Turn].nodes
  /\ LET events == am[Turn].events
         node == buildExecutionTree(events)[RunAt(Mounted(events, am[Turn].tools), p)]
     IN /\ msgId \in DOMAIN messageMap(node.events, Len(node.events))
        /\ Truthy(MessageData(node.events, msgId).thinking)
  /\ am' = [am EXCEPT
              ![Turn].nodes[p] = toggleItemExpand(@, msgId),
              ![Turn].userFlags =
                 Put(@, <<p, msgId>>, toggleItemExpand(am[Turn].nodes[p], msgId).expandedItems[msgId])]
  /\ toggles' = toggles + 1
  /\ lastOp' = Op("toggle", msgId, Len(p), <<>>, FALSE)
  /\ UNCHANGED <<messages, isLoading, currentRequestIdRef, sendPc, nextRequestId, channel,
                 cs, foreignSent>>

\* The user clicks the chevron of the tool call at path tp (shown when the tool
\* call has a child agent): setIsExpanded(!isExpanded), and the child subtree is
\* unmounted or mounted.
ToggleTool(tp) ==
  /\ toggles < MaxToggles
  /\ tp \in DOMAIN am[Turn].tools
  /\ LET events == am[Turn].events
         p == SubSeq(tp, 1, Len(tp) - 1)
         node == buildExecutionTree(events)[RunAt(Mounted(events, am[Turn].tools), p)]
     IN node.toolCalls[tp[Len(tp)]].childAgent # Null
  /\ LET tools == [am[Turn].tools EXCEPT ![tp] = [isExpanded |-> ~@.isExpanded, userSet |-> TRUE]]
     IN am' = [am EXCEPT ![Turn] = Commit(@, @.events, tools, FALSE)]
  /\ toggles' = toggles + 1
  /\ lastOp' = Op("toggleTool", tp[Len(tp)], Len(tp), <<>>, FALSE)
  /\ UNCHANGED <<messages, isLoading, currentRequestIdRef, sendPc, nextRequestId, channel,
                 cs, foreignSent>>

----------------------------------------------------------------------------
(* Events of the engine specifications *)

Chunk(type, runId, timestamp, messageId, thinking, content) ==
  Ev(type, runId, Null, Null, timestamp,
     [NoPayload EXCEPT !.messageId = messageId, !.thinking = thinking, !.content = content])

ToolEvent(type, runId, timestamp, toolCallId) ==
  Ev(type, runId, Null, Null, timestamp,
     [NoPayload EXCEPT !.toolCallId = toolCallId, !.toolName = "search"])

A_call1 == ToolEvent("tool-call-start", "A", "1", "t1")
A_result1 == ToolEvent("tool-result", "A", "2", "t1")
A_think == Chunk("chunk-text", "A", "1", "m1", "hmm", Null)
A_text == Chunk("chunk-text", "A", "2", "m1", Null, "Hi")
\* same (runId, type, timestamp, messageId) as A_text, other content
A_text2 == Chunk("chunk-text", "A", "2", "m1", Null, "Hi there")
B_start == Ev("start", "B", "A", "t1", "2", NoPayload)
B_text == Chunk("chunk-sub-agent-text", "B", "3", "m2", Null, "found it")
B_think == Chunk("chunk-sub-agent-text", "B", "2", "m2", "looking", Null)
B_result1 == ToolEvent("tool-result", "B", "4", "t1")
C_start == Ev("start", "C", "A", "t1", "3", NoPayload)

TreeEvents ==
  {A_call1, A_result1, A_think, A_text, A_text2, B_start, B_text, B_result1, C_start}

DisclosureEvents == {A_think, A_text, A_call1, B_start, B_think, B_text}

----------------------------------------------------------------------------
(* Specifications *)

\* The side panel as it opens.
Init ==
  /\ messages = <<>>
  /\ isLoading = FALSE
  /\ currentRequestIdRef = 0
  /\ sendPc = "idle"
  /\ nextRequestId = 0
  /\ channel = <<>>
  /\ cs = EmptyMap
  /\ am = <<>>
  /\ toggles = 0
  /\ foreignSent = 0
  /\ lastOp = Op("init", "", 0, <<>>, FALSE)

Next ==
  \/ SendStart
  \/ SendNoTab
  \/ SendAssign
  \/ SendNoContentScript
  \/ SendFetch
  \/ \E r \in 1..MaxTurns : CsChunk(r, 1)
  \/ \E r \in 1..MaxTurns : CsChunk(r, 2)
  \/ \E r \in 1..MaxTurns : CsComplete(r)
  \/ \E r \in 1..MaxTurns : CsError(r)
  \/ \E request \in ForeignMessages : Foreign(request)
  \/ Deliver
  \/ Render

\* The side panel, its content script and the render engine of every turn.
Spec == Init /\ [][Next]_vars

\* One turn whose request has been sent and whose stream is open.
InitEngine ==
  /\ messages = <<UserMessage, Placeholder>>
  /\ isLoading = TRUE
  /\ currentRequestIdRef = 1
  /\ sendPc = "idle"
  /\ nextRequestId = 1
  /\ channel = <<>>
  /\ cs = Put(EmptyMap, 1, [pc |-> "streaming", sent |-> 0])
  /\ am = <<FreshAssistantMessage, [FreshAssistantMessage EXCEPT !.requestId = 1]>>
  /\ toggles = 0
  /\ foreignSent = 0
  /\ lastOp = Op("init", "", 0, <<>>, FALSE)

NextTree == \E e \in TreeEvents : AppendEvent(e)

\* The tree builder and the consolidator over every event list of TreeEvents.
SpecTree == InitEngine /\ [][NextTree]_vars

\* The event is delivered for the first time: no event of the turn's list has
\* its (runId, type, timestamp, messageId).  A redelivered event changes no
\* state of the turn (the updater returns prev, line 629).
FirstDelivery(e) == ~isDuplicate(am[Turn].events, e)

NextDisclosure ==
  \/ \E e \in DisclosureEvents : FirstDelivery(e) /\ AppendEvent(e)
  \/ \E p \in DOMAIN am[Turn].nodes : \E msgId \in {"m1", "m2"} : ToggleMessage(p, msgId)
  \/ \E tp \in DOMAIN am[Turn].tools : ToggleTool(tp)

\* The disclosure state of one turn under events and user clicks.
SpecDisclosure == InitEngine /\ [][NextDisclosure]_vars

----------------------------------------------------------------------------
(* Views used by the properties *)

\* The event list of the turn the engine specifications drive.
TurnEvents == am[Turn].events

\* (runId, type, timestamp, payload.messageId)
TupleOf(e) == <<e.runId, e.type, e.timestamp, e.payload.messageId>>

\* The list without its i-th element.
Without(s, i) == SubSeq(s, 1, i - 1) \o SubSeq(s, i + 1, Len(s))

\* The positions of the tool-call-start events for toolCallId in a node's events.
StartsOf(events, toolCallId) ==
  {i \in DOMAIN events :
     events[i].type = "tool-call-start" /\ events[i].payload.toolCallId = toolCallId}

\* The rendered items of an event list with every tool call expanded: the run
\* nodes, the messages and the tool calls that are on screen.
View(events) ==
  LET tree == buildExecutionTree(events)
      runs == {m[2] : m \in Mounted(events, EmptyMap)}
  IN [nodes |-> runs,
      messages |-> UNION {{<<r, x>> : x \in DOMAIN messageMap(tree[r].events, Len(tree[r].events))}
                          : r \in runs},
      toolCalls |-> UNION {{<<r, t>> : t \in ToolItems(tree[r])} : r \in runs}]

----------------------------------------------------------------------------
(* C1 *)

\* C1: appending event e to list L leaves L unchanged when L holds an event with
\* the same (runId, type, timestamp, payload.messageId) tuple, and the whole
\* component state with it; otherwise the result is L with e at the end.  In
\* both cases appending e once more changes nothing.
C1_IdempotentAppend ==
  [][lastOp'.op = "append" =>
       LET L == TurnEvents
           e == lastOp'.ev[1]
           L1 == am'[Turn].events
       IN /\ L1 = IF TupleOf(e) \in {TupleOf(x) : x \in Range(L)} THEN L ELSE Append(L, e)
          /\ (TupleOf(e) \in {TupleOf(x) : x \in Range(L)} => am' = am)
          /\ appendEvent(L1, e) = L1]_vars

\* An event that is not in the list but has the tuple of one that is has just
\* been handed to appendEvent.
C1_Witness ==
  /\ lastOp.op = "append"
  /\ lastOp.ev[1] \notin Range(TurnEvents)
  /\ TupleOf(lastOp.ev[1]) \in {TupleOf(x) : x \in Range(TurnEvents)}

----------------------------------------------------------------------------
(* C2 *)

\* C2: once the user has toggled the disclosure of a message (or of a tool
\* call), appending an event, and the auto-expand/auto-collapse effect that
\* runs with it, leaves that identifier's flag as it is.
C2_DisclosureSticky ==
  [][lastOp'.op = "append" =>
       /\ \A p \in DOMAIN am[Turn].nodes \cap DOMAIN am'[Turn].nodes :
            \A msgId \in am[Turn].nodes[p].userSet :
               /\ msgId \in DOMAIN am'[Turn].nodes[p].expandedItems
               /\ am'[Turn].nodes[p].expandedItems[msgId] = am[Turn].nodes[p].expandedItems[msgId]
       /\ \A tp \in DOMAIN am[Turn].tools \cap DOMAIN am'[Turn].tools :
            am[Turn].tools[tp].userSet =>
               am'[Turn].tools[tp].isExpanded = am[Turn].tools[tp].isExpanded]_vars

----------------------------------------------------------------------------
(* C3 *)

\* The first event of run runId in the list.
FirstEventOf(events, runId) == SelectSeq(events, LAMBDA e : e.runId = runId)[1]

\* C3: for a child run B whose first event carries parentId = A and
\* toolCallId = t, and a run A that has a tool-call-start for t, the tree of the
\* list has A.toolCalls[t].childAgent = B, wherever B's events stand in the list
\* relative to A's.
C3_LinkOrderInvariant ==
  LET tree == buildExecutionTree(TurnEvents)
  IN \A A, B \in DOMAIN tree :
       LET first == FirstEventOf(TurnEvents, B)
       IN (/\ first.parentId = A
           /\ Truthy(first.toolCallId)
           /\ StartsOf(tree[A].events, first.toolCallId) # {})
          => tree[A].toolCalls[first.toolCallId].childAgent = B

----------------------------------------------------------------------------
(* C8 *)

\* C8: every run node, consolidated message and tool-call item of the view
\* derived from a prefix of the accumulated list is in the view derived from
\* the whole list.
C8_MonotonicView ==
  \A n \in 0..Len(TurnEvents) :
    LET before == View(SubSeq(TurnEvents, 1, n))
        after == View(TurnEvents)
    IN /\ before.nodes \subseteq after.nodes
       /\ before.messages \subseteq after.messages
       /\ before.toolCalls \subseteq after.toolCalls

----------------------------------------------------------------------------
(* C9 *)

\* A run whose parentId names no known run, or whose toolCallId matches no tool
\* call of the parent.
Unlinkable(tree, runId) ==
  /\ Truthy(tree[runId].parentId)
  /\ \/ tree[runId].parentId \notin DOMAIN tree
     \/ tree[runId].toolCallId \notin DOMAIN tree[tree[runId].parentId].toolCalls

\* C9: an unlinkable child run is rendered as a root of the pass, and a child
\* run whose parent and tool-call-start are in the list is the childAgent of
\* that tool call.
C9_UnlinkableRenderedAsRoot ==
  LET tree == buildExecutionTree(TurnEvents)
  IN \A runId \in DOMAIN tree :
       /\ Unlinkable(tree, runId) => runId \in View(TurnEvents).nodes
       /\ (Truthy(tree[runId].parentId) /\ ~Unlinkable(tree, runId))
            => tree[tree[runId].parentId].toolCalls[tree[runId].toolCallId].childAgent = runId

----------------------------------------------------------------------------
(* C10 *)

\* The tool-result at position j of a node's events has no tool-call-start of
\* its toolCallId before it in the node's events.
Orphaned(events, j) ==
  /\ events[j].type = "tool-result"
  /\ Truthy(events[j].payload.toolCallId)
  /\ \A i \in StartsOf(events, events[j].payload.toolCallId) : i > j

\* C10: a tool call's resultEvent is a tool-result of the same run and
\* toolCallId that stands after a tool-call-start of that id in the run's own
\* events; a tool-result with no such earlier start is the resultEvent of no
\* tool call of any run, and the run's toolCalls map is what the scan gives
\* without that event.
C10_ResultNeedsEarlierStart ==
  LET tree == buildExecutionTree(TurnEvents)
  IN \A runId \in DOMAIN tree :
       LET events == tree[runId].events
       IN /\ \A t \in DOMAIN tree[runId].toolCalls :
               tree[runId].toolCalls[t].resultEvent # <<>> =>
                  \E j \in DOMAIN events :
                     /\ events[j] = tree[runId].toolCalls[t].resultEvent[1]
                     /\ events[j].type = "tool-result"
                     /\ events[j].payload.toolCallId = t
                     /\ \E i \in StartsOf(events, t) : i < j
          /\ \A j \in DOMAIN events :
               Orphaned(events, j) =>
                  /\ \A r \in DOMAIN tree : \A t \in DOMAIN tree[r].toolCalls :
                        tree[r].toolCalls[t].resultEvent # <<events[j]>>
                  /\ ExtractToolCalls(events, EmptyMap)
                       = ExtractToolCalls(Without(events, j), EmptyMap)

\* A dropped result beside the tool call it names: the list holds a tool-result
\* for t1 before run A's tool-call-start for t1, or in another run, and A's tool
\* call t1 has no resultEvent.
C10_Witness ==
  LET tree == buildExecutionTree(TurnEvents)
  IN /\ "A" \in DOMAIN tree
     /\ "t1" \in DOMAIN tree["A"].toolCalls
     /\ tree["A"].toolCalls["t1"].resultEvent = <<>>
     /\ \E j \in DOMAIN tree["A"].events : Orphaned(tree["A"].events, j)
     /\ "B" \in DOMAIN tree
     /\ \E j \in DOMAIN tree["B"].events : Orphaned(tree["B"].events, j)

----------------------------------------------------------------------------
(* C4 *)

\* The fold of appendEvent over a sequence of events, from the empty list.
RECURSIVE FoldAppend(_)
FoldAppend(events) ==
  IF events = <<>> THEN <<>>
  ELSE appendEvent(FoldAppend(SubSeq(events, 1, Len(events) - 1)), events[Len(events)])

\* C4: no STREAM_EVENT the side panel accepted for a turn is lost or reordered:
\* the fold, in arrival order, of every accepted event is the turn's accumulated
\* list, once the event waiting in the currentEvent slot (if the render layer
\* has not consumed it yet) is appended to it.
C4_NoAcceptedEventLost ==
  \A i \in DOMAIN am :
     FoldAppend(am[i].delivered) =
        IF am[i].pending THEN appendEvent(am[i].events, messages[i].currentEvent[1])
        ELSE am[i].events

----------------------------------------------------------------------------
(* C5 *)

\* C5: the delivery of a STREAM_EVENT, STREAM_COMPLETE or STREAM_ERROR whose
\* requestId is not the current request id changes neither the message list,
\* nor the loading flag, nor the current request id, nor any turn's component
\* state.
C5_StaleIgnored ==
  [][(lastOp'.op = "deliver" /\ lastOp'.id # currentRequestIdRef)
       => UNCHANGED <<messages, isLoading, currentRequestIdRef, am>>]_vars

\* A STREAM_ERROR of another request has just been delivered while a request of
\* this panel is streaming into a turn that already holds events.
C5_Witness ==
  /\ lastOp.op = "deliver"
  /\ lastOp.kind = "STREAM_ERROR"
  /\ lastOp.id # currentRequestIdRef
  /\ currentRequestIdRef # 0
  /\ isLoading
  /\ am[Len(am)].events # <<>>

----------------------------------------------------------------------------
(* C6 *)

\* C6: after a STREAM_ERROR for the current request the turn is over (nothing
\* is loading, no request is current, the turn is not streaming) and the turn
\* shows the error text.
C6_ErrorReplacesContent ==
  (lastOp.op = "deliver" /\ lastOp.kind = "STREAM_ERROR" /\ lastOp.flag) =>
     /\ ~isLoading
     /\ currentRequestIdRef = 0
     /\ ~messages[Len(messages)].isStreaming
     /\ Shown(messages, am, Len(messages)) = "Error: HTTP error! status: 500"

----------------------------------------------------------------------------
(* C7 *)

\* C7: every event in a turn's currentEvent slot and event list is an event of
\* the response to that turn's request, and the delivery of a STREAM_ERROR or
\* STREAM_COMPLETE leaves the message and the component state of every turn
\* but the one of its request unchanged.
C7_TurnsIsolated ==
  [][/\ \A i \in DOMAIN am' :
          Range(am'[i].events) \cup Range(messages'[i].currentEvent)
             \subseteq (IF am'[i].requestId = 0 THEN {} ELSE StreamEvents(am'[i].requestId))
     /\ (lastOp'.op = "deliver" /\ lastOp'.kind \in {"STREAM_ERROR", "STREAM_COMPLETE"})
          => \A i \in DOMAIN am :
               am[i].requestId # lastOp'.id => (messages'[i] = messages[i] /\ am'[i] = am[i])]_vars

\* The second turn's stream has just failed while the first turn holds events
\* and the second had received some.
C7_Witness ==
  /\ lastOp.op = "deliver"
  /\ lastOp.kind = "STREAM_ERROR"
  /\ lastOp.flag
  /\ Len(messages) = 4
  /\ am[2].events # <<>>
  /\ am[4].events # <<>>
  /\ am[4].requestId = lastOp.id

----------------------------------------------------------------------------
(* C11 *)

\* The positions of the tool-result events for toolCallId in a node's events.
ResultsOf(events, toolCallId) ==
  {j \in DOMAIN events :
     events[j].type = "tool-result" /\ events[j].payload.toolCallId = toolCallId}

\* C11: once the accumulated list holds, for a run, both a tool-call-start and a
\* tool-result for tool call t, in either order, the tree derived from the list
\* has the resultEvent of the run's tool call t set.
C11_ReplayReconciles ==
  LET tree == buildExecutionTree(TurnEvents)
  IN \A runId \in DOMAIN tree :
       \A t \in DOMAIN tree[runId].toolCalls :
          (StartsOf(tree[runId].events, t) # {} /\ ResultsOf(tree[runId].events, t) # {})
             => tree[runId].toolCalls[t].resultEvent # <<>>

----------------------------------------------------------------------------
(* The consolidator over chunk events of run A *)

M_think == Chunk("chunk-text", "A", "1", "m3", "a", Null)
M_text == Chunk("chunk-text", "A", "2", "m3", Null, "b")
M_table == Chunk("chunk-table", "A", "3", "m3", Null, "headers")
\* a structured chunk that carries only finalAnswer
M_final == [Chunk("chunk-table", "A", "4", "m3", Null, Null) EXCEPT !.payload.finalAnswer = "done"]
M_rethink == [Chunk("chunk-text", "A", "5", "m3", "a2", Null) EXCEPT !.payload.suggestion = "next"]
\* a chunk whose thinking and content are empty strings
M_blank == Chunk("chunk-text", "A", "6", "m3", "", "")
N_text == Chunk("chunk-text", "A", "7", "m4", Null, "other")
\* a second tool-call-start for t1, later than A_call1
A_recall1 == ToolEvent("tool-call-start", "A", "8", "t1")
\* a chunk without a messageId
U_chunk == Chunk("chunk-text", "A", "9", Null, Null, "lost")

ConsolidatorEvents ==
  {M_think, M_text, M_table, M_final, M_rethink, M_blank, N_text, A_call1, A_recall1, U_chunk}

NextConsolidate == \E e \in ConsolidatorEvents : FirstDelivery(e) /\ AppendEvent(e)

\* The consolidator over every event list of ConsolidatorEvents.
SpecConsolidate == InitEngine /\ [][NextConsolidate]_vars

\* The events of run A in the turn's list: node.events of the root component.
NodeEvents == SelectSeq(TurnEvents, LAMBDA e : e.runId = "A")

\* The positions of the chunk events of message msgId in a node's events.
ChunksOf(events, msgId) ==
  {i \in DOMAIN events : events[i].type \in ChunkTypes /\ events[i].payload.messageId = msgId}

MergedFields == {"thinking", "textContent", "structuredContent", "finalAnswer", "suggestion"}

\* The value event e supplies for a field of its message.
Supplied(e, field) ==
  CASE field = "thinking" -> e.payload.thinking
    [] field = "textContent" -> IF e.type \in TextChunkTypes THEN e.payload.content ELSE Null
    [] field = "structuredContent" ->
         IF e.type \in StructuredChunkTypes THEN e.payload.content ELSE Null
    [] field = "finalAnswer" -> e.payload.finalAnswer
    [] field = "suggestion" -> e.payload.suggestion

\* The consolidated fields of a message, without its first event and its order key.
Fields(data) == [f \in MergedFields |-> data[f]]

Max(S) == CHOOSE x \in S : \A y \in S : y <= x
Min(S) == CHOOSE x \in S : \A y \in S : x <= y

----------------------------------------------------------------------------
(* C12 *)

\* C12: for the chunk events of one messageId, folded in arrival order, each of
\* thinking, textContent, structuredContent, finalAnswer and suggestion is the
\* value of the last event that supplied a truthy value for it (and is not
\* truthy when no event did), and an event that supplies no truthy value for a
\* field leaves the field as the events before it made it.
C12_FieldMerge ==
  LET L == NodeEvents
  IN \A n \in DOMAIN L :
       LET mm == messageMap(L, n)
       IN \A m \in DOMAIN mm : \A f \in MergedFields :
            LET suppliers == {i \in ChunksOf(L, m) : i <= n /\ Truthy(Supplied(L[i], f))}
            IN /\ IF suppliers = {} THEN ~Truthy(mm[m][f])
                  ELSE mm[m][f] = Supplied(L[Max(suppliers)], f)
               /\ (n \notin suppliers /\ m \in DOMAIN messageMap(L, n - 1))
                    => mm[m][f] = messageMap(L, n - 1)[m][f]

\* The structured chunk merge: a table chunk with content, then a table chunk
\* of the same message that carries only finalAnswer; the message has both.
C12_Witness ==
  /\ Len(NodeEvents) >= 2
  /\ NodeEvents[Len(NodeEvents) - 1] = M_table
  /\ NodeEvents[Len(NodeEvents)] = M_final
  /\ MessageData(NodeEvents, "m3").structuredContent = "headers"
  /\ MessageData(NodeEvents, "m3").finalAnswer = "done"

----------------------------------------------------------------------------
(* C13 *)

\* The list with the elements at positions i and j exchanged.
Swap(s, i, j) == [s EXCEPT ![i] = s[j], ![j] = s[i]]

\* Event e supplies a truthy value for field f and for no other merged field.
SuppliesOnly(e, f) == \A g \in MergedFields : Truthy(Supplied(e, g)) <=> g = f

\* C13: when the chunk events of a message are two, E1 supplying only thinking
\* and E2 supplying only text content, the consolidated fields are thinking of
\* E1 and textContent of E2, and they are the same when the two events stand in
\* the other order.
C13_MergeOrderInvariant ==
  LET L == NodeEvents
  IN \A m \in DOMAIN messageMap(L, Len(L)) : \A i, j \in ChunksOf(L, m) :
       (/\ ChunksOf(L, m) = {i, j}
        /\ SuppliesOnly(L[i], "thinking")
        /\ SuppliesOnly(L[j], "textContent"))
       => /\ MessageData(L, m).thinking = L[i].payload.thinking
          /\ MessageData(L, m).textContent = L[j].payload.content
          /\ Fields(MessageData(L, m)) = Fields(MessageData(Swap(L, i, j), m))

\* The text chunk of m3 stands before its thinking chunk, and these two are the
\* message's events.
C13_Witness ==
  \E i, j \in DOMAIN NodeEvents :
     /\ i < j
     /\ NodeEvents[i] = M_text
     /\ NodeEvents[j] = M_think
     /\ ChunksOf(NodeEvents, "m3") = {i, j}

----------------------------------------------------------------------------
(* C14 *)

\* The rendered items of a node, in display order, as <<kind, id>> pairs.
ItemOrder(events) ==
  LET items == orderedItems(events)
  IN [i \in DOMAIN items |-> <<items[i].type, items[i].id>>]

\* C14: the order key of a consolidated message is the index, in its run's
\* events, of the first chunk event of its messageId; messages are displayed in
\* the order of these indexes; and appending a further chunk event of a message
\* that exists leaves the display order of the run's items as it was.
C14_MessagePositionFixed ==
  [][lastOp'.op = "append" =>
       LET L == NodeEvents
           L1 == SelectSeq(am'[Turn].events, LAMBDA x : x.runId = "A")
           e == lastOp'.ev[1]
           mm == messageMap(L1, Len(L1))
           order == ItemOrder(L1)
       IN /\ \A m \in DOMAIN mm : mm[m].orderIndex = Min(ChunksOf(L1, m))
          /\ \A i, j \in DOMAIN order :
               (order[i][1] = "message" /\ order[j][1] = "message")
                  => (i < j <=> Min(ChunksOf(L1, order[i][2])) < Min(ChunksOf(L1, order[j][2])))
          /\ (e.type \in ChunkTypes /\ e.payload.messageId \in DOMAIN messageMap(L, Len(L)))
               => ItemOrder(L1) = ItemOrder(L)]_vars

\* A chunk of a message that exists has just been appended, after an item that
\* was created later than the message.
C14_Witness ==
  /\ lastOp.op = "append"
  /\ ~lastOp.flag
  /\ lastOp.ev[1].type \in ChunkTypes
  /\ lastOp.ev[1].payload.messageId = "m3"
  /\ Len(ItemOrder(NodeEvents)) = 3
  /\ ItemOrder(NodeEvents)[1] = <<"message", "m3">>
  /\ Cardinality(ChunksOf(NodeEvents, "m3")) >= 2

----------------------------------------------------------------------------
(* C15 *)

\* The index of the first event that created an item of a node.
FirstSeen(events, item) ==
  IF item[1] = "message" THEN Min(ChunksOf(events, item[2]))
  ELSE Min(StartsOf(events, item[2]))

\* C15: a tool-call item is ordered by the index of the first tool-call-start
\* of its toolCallId in the run's events: every item of the run stands before
\* another exactly when its first-seen index is the smaller one, also when a
\* later tool-call-start with the same id is in the list.
C15_ToolCallFirstSeen ==
  LET L == NodeEvents
      order == ItemOrder(L)
  IN \A i, j \in DOMAIN order :
       (order[i][1] = "toolCall" \/ order[j][1] = "toolCall")
          => (i < j <=> FirstSeen(L, order[i]) < FirstSeen(L, order[j]))

----------------------------------------------------------------------------
(* C16 *)

\* The positions of the chunk events of a node that carry no messageId.
Unattributed(events) ==
  {j \in DOMAIN events : events[j].type \in ChunkTypes /\ ~Truthy(events[j].payload.messageId)}

\* C16: a chunk event without a messageId creates no item, and the consolidated
\* messages (their ids, their fields and their first events) and the display
\* order of the run's items are those of the run's events without that event.
C16_ChunkWithoutMessageId ==
  LET L == NodeEvents
      mm == messageMap(L, Len(L))
  IN \A j \in Unattributed(L) :
       LET R == Without(L, j)
           rm == messageMap(R, Len(R))
       IN /\ L[j].payload.messageId \notin DOMAIN mm
          /\ Len(orderedItems(L)) = Len(orderedItems(R))
          /\ ItemOrder(L) = ItemOrder(R)
          /\ DOMAIN mm = DOMAIN rm
          /\ \A m \in DOMAIN mm : Fields(mm[m]) = Fields(rm[m]) /\ mm[m].event = rm[m].event

\* A chunk without a messageId stands between two items of the run.
C16_Witness ==
  \E j \in Unattributed(NodeEvents) :
     /\ 1 < j
     /\ j < Len(NodeEvents)
     /\ Len(ItemOrder(NodeEvents)) >= 2
     /\ Truthy(NodeEvents[j].payload.content)

----------------------------------------------------------------------------
(* C17 *)

\* The events of run runId in a list.
RunEvents(events, runId) == SelectSeq(events, LAMBDA e : e.runId = runId)

\* The messages of a run that have no content in the list `before` and have
\* content in the list `after`.
GainedContent(before, after, runId) ==
  LET old == RunEvents(before, runId)
      new == RunEvents(after, runId)
  IN {m \in DOMAIN messageMap(old, Len(old)) :
        ~hasContent(MessageData(old, m)) /\ hasContent(MessageData(new, m))}

----------------------------------------------------------------------------
(* C18 *)

\* The messages of a run in list `after` that have thinking text and no
\* content, and that are not in list `before`.
CreatedThinking(before, after, runId) ==
  LET old == RunEvents(before, runId)
      new == RunEvents(after, runId)
  IN {m \in DOMAIN messageMap(new, Len(new)) \ DOMAIN messageMap(old, Len(old)) :
        Truthy(MessageData(new, m).thinking) /\ ~hasContent(MessageData(new, m))}

\* C18: a message created by the appended event, with thinking text and no
\* content, is displayed expanded, its flag set to true, in every mounted
\* component that renders its run (a new message has no user-set flag); so is
\* a thinking-only message of a run whose component the append mounts.
C18_AutoExpand ==
  [][(lastOp'.op = "append" /\ ~lastOp'.flag) =>
       LET mounts == Mounted(am'[Turn].events, am'[Turn].tools)
       IN \A p \in DOMAIN am'[Turn].nodes :
            LET runId == RunAt(mounts, p)
                comp == am'[Turn].nodes[p]
                before == IF p \in DOMAIN am[Turn].nodes THEN am[Turn].events ELSE <<>>
            IN \A m \in CreatedThinking(before, am'[Turn].events, runId) :
                 /\ isExpanded(comp, m)
                 /\ m \in DOMAIN comp.expandedItems
                 /\ comp.expandedItems[m]]_vars

\* The append that has just happened created a thinking-only message in a
\* mounted sub-agent component, and the message is displayed expanded.
C18_Witness ==
  /\ lastOp.op = "append"
  /\ ~lastOp.flag
  /\ lastOp.ev[1] = B_think
  /\ <<"A", "t1">> \in DOMAIN am[Turn].nodes
  /\ isExpanded(am[Turn].nodes[<<"A", "t1">>], "m2")
  /\ ~hasContent(MessageData(RunEvents(TurnEvents, "B"), "m2"))

----------------------------------------------------------------------------
(* The tree builder over several root runs *)

\* runs whose ids are the strings "1" and "2"
R1_start == Ev("start", "1", Null, Null, "1", NoPayload)
R1_text == Chunk("chunk-text", "1", "2", "m5", Null, "one")
R2_start == Ev("start", "2", Null, Null, "1", NoPayload)
R2_text == Chunk("chunk-text", "2", "2", "m6", Null, "two")
A_start == [Ev("start", "A", Null, Null, "1", NoPayload) EXCEPT !.agentId = "planner"]
\* a later event of run A that carries a parentId, a toolCallId and another agentId
A_finish == [Ev("finish", "A", "Z", "t9", "5", NoPayload) EXCEPT !.agentId = "worker"]
Z_start == Ev("start", "Z", Null, Null, "1", NoPayload)

RootEvents == {R1_start, R1_text, R2_start, R2_text, A_start, A_finish, A_text, Z_start}

NextRoots == \E e \in RootEvents : FirstDelivery(e) /\ AppendEvent(e)

\* The tree builder over every event list of RootEvents.
SpecRoots == InitEngine /\ [][NextRoots]_vars

\* The positions of the events of run runId in a list.
PositionsOf(events, runId) == {i \in DOMAIN events : events[i].runId = runId}

----------------------------------------------------------------------------
(* C19 *)

\* C19: the roots are rendered in the order of first appearance: root X stands
\* above root Y exactly when the first event of X precedes the first event of Y
\* in the accumulated list.
C19_RootsInFirstAppearanceOrder ==
  LET roots == rootNodes(TurnEvents)
  IN \A i, j \in DOMAIN roots :
       i < j <=> Min(PositionsOf(TurnEvents, roots[i])) < Min(PositionsOf(TurnEvents, roots[j]))

----------------------------------------------------------------------------
(* C20 *)

\* C20: the tree has exactly one node for each distinct runId of the
\* accumulated list; the node's events are the list's events of that runId in
\* arrival order; and its parentId, toolCallId and agentId are those of the
\* first event of the run in the list (null when that event has none),
\* whatever the later events of the run carry.
C20_OneNodePerRun ==
  LET L == TurnEvents
      tree == buildExecutionTree(L)
      keys == ObjectKeys(L)
  IN /\ DOMAIN tree = {L[i].runId : i \in {k \in DOMAIN L : Truthy(L[k].runId)}}
     /\ Range(keys) = DOMAIN tree
     /\ \A i, j \in DOMAIN keys : keys[i] = keys[j] => i = j
     /\ \A runId \in DOMAIN tree :
          LET at == SortedSeq(PositionsOf(L, runId))
              first == L[at[1]]
          IN /\ tree[runId].runId = runId
             /\ tree[runId].events = [k \in DOMAIN at |-> L[at[k]]]
             /\ tree[runId].parentId = first.parentId
             /\ tree[runId].toolCallId = first.toolCallId
             /\ tree[runId].agentId = first.agentId

\* Run A has its start first and later an event that names a parent, a tool
\* call and another agent; other runs' events stand in the list too.
C20_Witness ==
  LET tree == buildExecutionTree(TurnEvents)
  IN /\ "A" \in DOMAIN tree
     /\ Cardinality(DOMAIN tree) >= 3
     /\ tree["A"].events[1] = A_start
     /\ tree["A"].events[Len(tree["A"].events)] = A_finish
     /\ tree["A"].parentId = Null
     /\ tree["A"].agentId = "planner"

----------------------------------------------------------------------------
(* C21 *)

\* The runs of the list whose first event names run A and tool call t as parent.
ClaimantsOf(events, A, t) ==
  {B \in {e.runId : e \in Range(events)} :
     FirstEventOf(events, B).parentId = A /\ FirstEventOf(events, B).toolCallId = t}

\* C21: when the runs of the list are A and B, run A has a tool-call-start
\* for t and a later tool-result for t, and B's first event names A and t as
\* its parent, then A is the only root, A's items hold tool call t with childAgent B and with that tool-result
\* as resultEvent, and B is rendered with each of its consolidated messages,
\* wherever B's events stand relative to the result.
C21_ToolCallWithSubAgent ==
  LET L == TurnEvents
      tree == buildExecutionTree(L)
  IN \A A \in DOMAIN tree : \A t \in DOMAIN tree[A].toolCalls : \A B \in DOMAIN tree :
       LET own == tree[A].events
           results == {j \in ResultsOf(own, t) : j > Min(StartsOf(own, t))}
       IN (/\ ~Truthy(tree[A].parentId)
           /\ DOMAIN tree = {A, B}
           /\ ClaimantsOf(L, A, t) = {B}
           /\ results # {})
          => /\ rootNodes(L) = <<A>>
             /\ t \in ToolItems(tree[A])
             /\ tree[A].toolCalls[t].childAgent = B
             /\ tree[A].toolCalls[t].resultEvent = <<own[Max(results)]>>
             /\ B \in View(L).nodes
             /\ \A m \in DOMAIN messageMap(tree[B].events, Len(tree[B].events)) :
                  <<B, m>> \in View(L).messages

\* The scenario: tool-call-start t1 in A, the start and a text chunk of child
\* B, then the tool-result for t1 in A.
C21_Witness ==
  /\ TurnEvents = <<A_call1, B_start, B_text, A_result1>>
  /\ buildExecutionTree(TurnEvents)["A"].toolCalls["t1"].childAgent = "B"
  /\ buildExecutionTree(TurnEvents)["A"].toolCalls["t1"].resultEvent = <<A_result1>>

----------------------------------------------------------------------------
(* C22 *)

\* The state of the mounted node components is derived from the list: the
\* components are those the tree of the list mounts, and each has run its
\* effect on the events its run has in that tree.
DerivedFromList(a) ==
  LET tree == buildExecutionTree(a.events)
      mounts == Mounted(a.events, a.tools)
  IN /\ DOMAIN a.nodes = {m[1] : m \in mounts}
     /\ \A p \in DOMAIN a.nodes : a.nodes[p].prevEvents = tree[RunAt(mounts, p)].events

\* C22: every step leaves the accumulated list of every turn unchanged or
\* extends it by one event at the end, a new turn starts with the empty list,
\* and the rendered components are those derived from the current list.
C22_AppendOnly ==
  [][/\ \A i \in DOMAIN am :
          /\ i \in DOMAIN am'
          /\ \/ am'[i].events = am[i].events
             \/ /\ Len(am'[i].events) = Len(am[i].events) + 1
                /\ SubSeq(am'[i].events, 1, Len(am[i].events)) = am[i].events
     /\ \A i \in DOMAIN am' \ DOMAIN am : am'[i].events = <<>>
     /\ \A i \in DOMAIN am' : DerivedFromList(am'[i])]_vars

\* The render that has just happened appended a second event, an event of
\* message m1, to the list of the turn.
C22_Witness ==
  /\ lastOp.op = "render"
  /\ Len(am[Len(am)].events) = 2
  /\ am[Len(am)].events[2].payload.messageId = "m1"
  /\ am[Len(am)].nodes # EmptyMap

----------------------------------------------------------------------------
(* The tree builder over tool events, redelivered and re-sent ones included *)

\* a tool-call-start of run A for another tool call, with the timestamp of A_call1
A_call2 == ToolEvent("tool-call-start", "A", "1", "t2")
B_call3 == ToolEvent("tool-call-start", "B", "5", "t3")

ToolCallEvents == {A_call1, A_call2, A_recall1, A_result1, B_start, B_call3}

NextToolCalls == \E e \in ToolCallEvents : AppendEvent(e)

\* The tool calls of the tree over every event list of ToolCallEvents.
SpecToolCalls == InitEngine /\ [][NextToolCalls]_vars

----------------------------------------------------------------------------
(* C23 *)

\* C23: after a tool-call-start event with a runId and a payload toolCallId is
\* handed to appendEvent, the tree of the list has an entry for that toolCallId
\* in the toolCalls map of the event's run.
C23_StartCreatesEntry ==
  [][lastOp'.op = "append" =>
       LET e == lastOp'.ev[1]
           tree == buildExecutionTree(am'[Turn].events)
       IN (e.type = "tool-call-start" /\ Truthy(e.runId) /\ Truthy(e.payload.toolCallId))
            => /\ e.runId \in DOMAIN tree
               /\ e.payload.toolCallId \in DOMAIN tree[e.runId].toolCalls]_vars

----------------------------------------------------------------------------
(* C25 *)

\* C25: a resultEvent or a childAgent that the tree of a prefix of the
\* accumulated list has for tool call t of run R is still there, non-null, in
\* the tree of the whole list.
C25_AttachmentsPersist ==
  LET after == buildExecutionTree(TurnEvents)
  IN \A n \in 0..Len(TurnEvents) :
       LET before == buildExecutionTree(SubSeq(TurnEvents, 1, n))
       IN \A R \in DOMAIN before : \A t \in DOMAIN before[R].toolCalls :
            /\ before[R].toolCalls[t].resultEvent # <<>>
                 => after[R].toolCalls[t].resultEvent # <<>>
            /\ before[R].toolCalls[t].childAgent # Null
                 => after[R].toolCalls[t].childAgent # Null

----------------------------------------------------------------------------
(* C24 *)

\* The messages a step puts in flight.
Sent == IF Len(channel') > Len(channel)
        THEN SubSeq(channel', Len(channel) + 1, Len(channel'))
        ELSE <<>>

\* C24: the messages the content script sends for a FETCH_FROM_TAB request r
\* carry r as requestId; the STREAM_EVENT messages carry the events of the
\* response in stream order; a terminal message (STREAM_COMPLETE or
\* STREAM_ERROR) is sent alone and ends the request; and nothing is sent for a
\* request that has ended, so each request has at most one terminal message.
C24_ContentScriptOrder ==
  [][\A k \in DOMAIN Sent :
        LET request == Sent[k]
            r == request.requestId
        IN r # ForeignRequestId =>
             /\ r = lastOp'.id
             /\ r \in DOMAIN cs
             /\ cs[r].pc = "streaming"
             /\ IF request.type = "STREAM_EVENT"
                THEN /\ request.event = <<StreamEvent(r, cs[r].sent + k)>>
                     /\ cs'[r].sent = cs[r].sent + Len(Sent)
                     /\ cs'[r].pc = "streaming"
                ELSE /\ Len(Sent) = 1
                     /\ request.type \in {"STREAM_COMPLETE", "STREAM_ERROR"}
                     /\ request.type = "STREAM_ERROR" <=> lastOp'.op = "error"
                     /\ cs'[r].pc = "done"]_vars

\* The stream of a request has just ended, after two events were sent for it.
C24_Witness ==
  /\ lastOp.op = "complete"
  /\ cs[lastOp.id].pc = "done"
  /\ cs[lastOp.id].sent = 2

----------------------------------------------------------------------------
(* C26 *)

\* C26: in every reachable state no two events of a turn's accumulated list
\* have the same (runId, type, timestamp, payload.messageId).
C26_NoDuplicateTuples ==
  \A a \in DOMAIN am : \A i, j \in DOMAIN am[a].events :
     TupleOf(am[a].events[i]) = TupleOf(am[a].events[j]) => i = j

\* A text chunk of m1 is in the list, at least one event was appended after
\* it, and the last event handed to appendEvent has the chunk's tuple and
\* another content.
C26_Witness ==
  /\ lastOp.op = "append"
  /\ lastOp.flag
  /\ lastOp.ev[1].payload.content # Null
  /\ Len(TurnEvents) >= 2
  /\ \E i \in DOMAIN TurnEvents :
        /\ i < Len(TurnEvents)
        /\ TupleOf(TurnEvents[i]) = TupleOf(lastOp.ev[1])
        /\ TurnEvents[i].payload.content # lastOp.ev[1].payload.content

----------------------------------------------------------------------------
(* C27 *)

\* C27: a user toggle on a message flips what is displayed: the message is
\* shown collapsed after the toggle if it was shown expanded before it, and
\* expanded if it was shown collapsed, also when the message has no stored
\* disclosure flag yet.
C27_ToggleFlipsDisplay ==
  [][lastOp'.op = "toggle" =>
       \A p \in DOMAIN am[Turn].nodes :
          am'[Turn].nodes[p] # am[Turn].nodes[p] =>
             isExpanded(am'[Turn].nodes[p], lastOp'.kind)
                = ~isExpanded(am[Turn].nodes[p], lastOp'.kind)]_vars

----------------------------------------------------------------------------
(* C28 *)

\* C28: when the user re-expands a tool call, every message of the child run
\* under it whose disclosure the user had set is on screen with the flag the
\* user gave it.
C28_FlagsSurviveRemount ==
  lastOp.op = "toggleTool" =>
     \A k \in DOMAIN am[Turn].userFlags :
        (/\ Len(k[1]) >= lastOp.id
         /\ k[1][lastOp.id] = lastOp.kind
         /\ k[1] \in DOMAIN am[Turn].nodes)
        => /\ k[2] \in DOMAIN am[Turn].nodes[k[1]].expandedItems
           /\ am[Turn].nodes[k[1]].expandedItems[k[2]] = am[Turn].userFlags[k]

----------------------------------------------------------------------------
(* The tree builder over runs that name themselves or each other as parent *)

\* run A starting as the child of tool call t3 of run B
A_nested == Ev("start", "A", "B", "t3", "0", NoPayload)
\* run S starting as the child of its own tool call t1
S_self == Ev("start", "S", "S", "t1", "1", NoPayload)
S_call1 == ToolEvent("tool-call-start", "S", "2", "t1")
D_start == Ev("start", "D", "B", "t3", "6", NoPayload)
\* a second tool call of run A
A_call4 == ToolEvent("tool-call-start", "A", "3", "t4")

ForestEvents == {A_call1, A_call4, A_nested, B_start, B_call3, S_self, S_call1, D_start}

NextForest == \E e \in ForestEvents : FirstDelivery(e) /\ AppendEvent(e)

\* The tree builder and the rendering over every event list of ForestEvents.
SpecForest == InitEngine /\ [][NextForest]_vars

\* The tool calls, as <<runId, toolCallId>>, whose childAgent is run r.
HoldersOf(tree, r) ==
  {h \in UNION {{<<q, t>> : t \in DOMAIN tree[q].toolCalls} : q \in DOMAIN tree} :
      tree[h[1]].toolCalls[h[2]].childAgent = r}

\* The runs the tool calls of run r have as childAgent.
ChildAgents(tree, r) ==
  {tree[r].toolCalls[t].childAgent : t \in DOMAIN tree[r].toolCalls} \ {Null}

\* The sequences of runs met by following childAgent links from the last run
\* of w for at most n steps.
RECURSIVE Walks(_, _, _)
Walks(tree, w, n) ==
  {w} \cup (IF n = 0 THEN {}
            ELSE UNION {Walks(tree, Append(w, c), n - 1) : c \in ChildAgents(tree, w[Len(w)])})

\* Some run is reached from itself by childAgent links.
LinkCycle(tree) ==
  \E r \in DOMAIN tree :
     \E w \in Walks(tree, <<r>>, Cardinality(DOMAIN tree)) : Len(w) > 1 /\ w[Len(w)] = r

----------------------------------------------------------------------------
(* C29 *)

\* C29: for every event list, each run is the childAgent of at most one tool
\* call, and that tool call is the one of the run's parentId under the run's
\* toolCallId; following childAgent links from the roots meets every run at
\* most once, and every mounted component renders a different run.
C29_Forest ==
  LET events == am[Turn].events
      tree == buildExecutionTree(events)
      walks == UNION {Walks(tree, <<r>>, Cardinality(DOMAIN tree)) : r \in Range(rootNodes(events))}
      mounts == Mounted(events, am[Turn].tools)
  IN /\ \A r \in DOMAIN tree :
          /\ Cardinality(HoldersOf(tree, r)) <= 1
          /\ \A h \in HoldersOf(tree, r) :
                h[1] = tree[r].parentId /\ h[2] = tree[r].toolCallId
     /\ \A w \in walks : \A i, j \in DOMAIN w : w[i] = w[j] => i = j
     /\ \A v, w \in walks : v[Len(v)] = w[Len(w)] => v = w
     /\ \A m, n \in mounts : m[2] = n[2] => m = n
     /\ {p : p \in DOMAIN am[Turn].nodes} = {m[1] : m \in mounts}

\* Runs A and B name each other as parent and are linked both ways, next to a
\* third run in the list.
C29_Witness ==
  LET tree == buildExecutionTree(am[Turn].events)
  IN /\ LinkCycle(tree)
     /\ {"A", "B"} \subseteq DOMAIN tree
     /\ "t1" \in DOMAIN tree["A"].toolCalls /\ tree["A"].toolCalls["t1"].childAgent = "B"
     /\ "t3" \in DOMAIN tree["B"].toolCalls /\ tree["B"].toolCalls["t3"].childAgent = "A"
     /\ rootNodes(am[Turn].events) = <<>>

----------------------------------------------------------------------------
(* C30 *)

\* The ids of the tool-call items the consolidator makes of a node's events.
ToolCallItems(events) ==
  {it.id : it \in {x \in Range(orderedItems(events)) : x.type = "toolCall"}}

\* C30: for every run of the tree, the tool-call items of the consolidator are
\* the keys of the node's toolCalls map.
C30_ItemsMatchToolCalls ==
  LET tree == buildExecutionTree(am[Turn].events)
  IN \A r \in DOMAIN tree : ToolCallItems(tree[r].events) = DOMAIN tree[r].toolCalls

\* A tool-result ahead of its tool-call-start in run A, and a tool call in the
\* child run B.
C30_Witness ==
  LET tree == buildExecutionTree(am[Turn].events)
  IN /\ {"A", "B"} \subseteq DOMAIN tree
     /\ Len(tree["A"].events) >= 2
     /\ tree["A"].events[1] = A_result1
     /\ DOMAIN tree["A"].toolCalls = {"t1"}
     /\ DOMAIN tree["B"].toolCalls = {"t3"}

----------------------------------------------------------------------------
(* C31 *)

\* The messages of the side panel that have isStreaming true.
Streaming == {i \in DOMAIN messages : messages[i].isStreaming}

\* C31: at most one message is streaming and it is the last one; while the
\* loading flag is false the current request id is null and no message is
\* streaming; after messageListener accepted a STREAM_COMPLETE or a
\* STREAM_ERROR the loading flag is false and the request id is null.
C31_OneRequestInFlight ==
  /\ Cardinality(Streaming) <= 1
  /\ Streaming \subseteq {Len(messages)}
  /\ ~isLoading => currentRequestIdRef = 0 /\ Streaming = {}
  /\ (lastOp.op = "deliver" /\ lastOp.flag
        /\ lastOp.kind \in {"STREAM_COMPLETE", "STREAM_ERROR"})
     => ~isLoading /\ currentRequestIdRef = 0

\* The second turn's request has ended with an accepted terminal signal.
C31_Witness ==
  /\ lastOp.op = "deliver" /\ lastOp.flag
  /\ lastOp.kind \in {"STREAM_COMPLETE", "STREAM_ERROR"}
  /\ Len(messages) = 4
  /\ ~isLoading

----------------------------------------------------------------------------
(* The tree builder over lists with events that have no runId *)

\* events without a runId: a chunk, a tool-call-start with an empty runId, and
\* a start naming run A's tool call t1 as its parent
X_chunk == Chunk("chunk-text", Null, "7", "m1", Null, "lost")
X_call1 == ToolEvent("tool-call-start", "", "8", "t1")
X_start == Ev("start", Null, "A", "t1", "0", NoPayload)

MalformedEvents == {X_chunk, X_call1, X_start, A_call1, A_result1, A_text, B_start}

NextMalformed == \E e \in MalformedEvents : FirstDelivery(e) /\ AppendEvent(e)

\* The tree builder over every event list of MalformedEvents.
SpecMalformed == InitEngine /\ [][NextMalformed]_vars

----------------------------------------------------------------------------
(* C32 *)

\* C32: appending an event without a runId leaves the tree as it was: the same
\* runs, each with the same events, toolCalls, links and times, and the same
\* roots; the event itself is kept in the list.
C32_NoRunIdNoEffect ==
  [][(lastOp'.op = "append" /\ ~Truthy(lastOp'.ev[1].runId)) =>
       /\ buildExecutionTree(am'[Turn].events) = buildExecutionTree(am[Turn].events)
       /\ rootNodes(am'[Turn].events) = rootNodes(am[Turn].events)
       /\ \A r \in DOMAIN buildExecutionTree(am'[Turn].events) : Truthy(r)
       /\ am'[Turn].events = Append(am[Turn].events, lastOp'.ev[1])]_vars

\* An event without a runId was appended to a list whose tree has run A with a
\* tool call that holds run B.
C32_Witness ==
  /\ lastOp.op = "append" /\ ~Truthy(lastOp.ev[1].runId)
  /\ LET tree == buildExecutionTree(am[Turn].events)
     IN /\ DOMAIN tree = {"A", "B"}
        /\ "t1" \in DOMAIN tree["A"].toolCalls
        /\ tree["A"].toolCalls["t1"].childAgent = "B"
        /\ Len(am[Turn].events) = 3

----------------------------------------------------------------------------
(* The tree builder over runs with several start and finish events and with
   events that have no timestamp *)

A_start2 == Ev("start", "A", Null, Null, "4", NoPayload)
A_finish2 == Ev("finish", "A", Null, Null, "6", NoPayload)
\* events of run B without a timestamp
B_blankStart == Ev("start", "B", "A", "t1", "", NoPayload)
B_blank == Chunk("chunk-sub-agent-text", "B", Null, "m2", Null, "untimed")
B_blankFinish == Ev("finish", "B", "A", "t1", Null, NoPayload)

TimeEvents ==
  {A_start, A_start2, A_finish, A_finish2, A_text, B_blankStart, B_text, B_blank, B_blankFinish}

NextTimes == \E e \in TimeEvents : FirstDelivery(e) /\ AppendEvent(e)

\* The tree builder over every event list of TimeEvents.
SpecTimes == InitEngine /\ [][NextTimes]_vars

\* The positions of the events of a type in a list.
TypePositions(events, type) == {i \in DOMAIN events : events[i].type = type}

\* The time a node takes from its events: the timestamp of the first event of
\* the type when there is such an event and it has one, else the timestamp of
\* the event at position `other` when it has one, else null.
TimeOf(events, type, other) ==
  LET hits == TypePositions(events, type)
      first == Min(hits)
  IN IF hits # {} /\ Truthy(events[first].timestamp) THEN events[first].timestamp
     ELSE IF Truthy(events[other].timestamp) THEN events[other].timestamp
     ELSE Null

----------------------------------------------------------------------------
(* C33 *)

\* C33: for every run of the tree, startTime is the timestamp of the run's
\* first start event, else of its first event, and endTime is the timestamp of
\* its first finish event, else of its last event; a time is null only when
\* neither of its two events has a timestamp.
C33_StartEndTimes ==
  LET tree == buildExecutionTree(am[Turn].events)
  IN \A r \in DOMAIN tree :
        LET node == tree[r]
            n == Len(node.events)
        IN /\ node.startTime = TimeOf(node.events, "start", 1)
           /\ node.endTime = TimeOf(node.events, "finish", n)
           /\ node.startTime = Null =>
                /\ ~Truthy(node.events[1].timestamp)
                /\ \A i \in TypePositions(node.events, "start") :
                      i = Min(TypePositions(node.events, "start"))
                         => ~Truthy(node.events[i].timestamp)
           /\ node.endTime = Null =>
                /\ ~Truthy(node.events[n].timestamp)
                /\ \A i \in TypePositions(node.events, "finish") :
                      i = Min(TypePositions(node.events, "finish"))
                         => ~Truthy(node.events[i].timestamp)

\* Run A has a chunk before its two start events and a second finish event
\* after its first: the times are those of the first start and first finish.
C33_Witness ==
  LET tree == buildExecutionTree(am[Turn].events)
  IN /\ "A" \in DOMAIN tree
     /\ tree["A"].events = <<A_text, A_start2, A_finish, A_finish2>>
     /\ tree["A"].startTime = "4"
     /\ tree["A"].endTime = "5"

\* Run B has a start event without a timestamp and takes its start time from
\* its first event.
C33_Fallback ==
  LET tree == buildExecutionTree(am[Turn].events)
  IN /\ "B" \in DOMAIN tree
     /\ tree["B"].events = <<B_text, B_blankStart, B_blank>>
     /\ tree["B"].startTime = "3"
     /\ tree["B"].endTime = Null

============================================================================
